---- MODULE Spec2Model ----
(***************************************************************************)
(* A model of the tracing facade (tracing_facade/src/lib.rs) and of the    *)
(* Chromium trace-event emitter (tracing_chromium/src/lib.rs).             *)
(*                                                                         *)
(* Spec / FairSpec : the write-once tracer registry (STATE, TRACER), the   *)
(*                   installers and the four facade entry points, run by   *)
(*                   the threads against user-supplied backends.           *)
(* EmitterSpec     : the Chromium emitter: from_output, record_event and   *)
(*                   flush on a sink whose writes can fail.                *)
(***************************************************************************)
EXTENDS Integers, Sequences, FiniteSets, TLC

(* ------------------------------ bounds --------------------------------- *)
MaxCalls == 3
MaxToggles == 1
MaxEmits == 2
MaxFails == 1
MaxClock == 1
MaxMacros == 4
MaxDepth == 2

Threads == {"t1", "t2"}

(* --------------------------- program constants ------------------------- *)
UNINITIALIZED == 0
INITIALIZED == 1
INITIALIZING == 2

None == "None"

(* The tracer objects handed to set_tracer / set_boxed_tracer.  "spy"      *)
(* overrides supports_metadata (as the crate's doc-test tracer does) and   *)
(* is_enabled (a flag the application switches); "plain" keeps the trait's *)
(* defaults.                                                               *)
Backends == {"spy", "plain"}

EventKind == {"SyncBegin", "SyncEnd"}

Metadata_default == [json |-> None]

Event(name, kind, metadata) == [name |-> name, kind |-> kind, metadata |-> metadata]

Metadata_from_json(json) == [json |-> json]

Metadata_into_json(metadata) == metadata.json

(* No event: the argument of a call that takes none.                       *)
NoEvent == Event(None, None, Metadata_default)

(* The events the threads record.                                          *)
Events == {Event("foo", k, Metadata_default) : k \in EventKind}

(* The events handed to the Chromium emitter: a begin without metadata and *)
(* an end that carries metadata.                                           *)
EmitterEvents ==
  {Event("foo", "SyncBegin", Metadata_default),
   Event("foo", "SyncEnd", Metadata_from_json("{\"value\":42}"))}

Tracer_supports_metadata(b) == b = "spy"

VARIABLES
  State,        \* static STATE: the registry's atomic tri-state flag
  TRACER,       \* static mut TRACER: None or the published tracer
  pc,           \* pc[t]: where thread t is inside its current call
  cur,          \* cur[t]: the call thread t is executing
  ret,          \* ret[t]: what thread t's last completed call returned
  sent,         \* sent[t]: the events of t's record_event calls that found the tracer enabled
  enabled,      \* enabled[b]: what backend b's is_enabled() reports now
  received,     \* received[b]: the record_event/flush calls b was handed
  toggles,      \* how often a backend changed its enabled flag
  tracerWrites, \* how often the TRACER slot was assigned
  installLog,   \* the install calls that have ended, in the order they ended
  ncalls        \* how many calls the threads have begun

fvars == <<State, TRACER, pc, cur, ret, sent, enabled, received, toggles, tracerWrites,
           installLog, ncalls>>

(* The Chromium emitter and its sink.                                      *)
VARIABLES
  built,        \* has Tracer::from_output run
  output,       \* what the sink holds: the pieces written to it, in order
  lock,         \* the thread holding the `output` mutex, or None
  epc,          \* epc[t]: where thread t is inside its emitter call
  ework,        \* ework[t]: the emitter call thread t is executing
  clock,        \* time::precise_time_ns() / 1000, now
  fails,        \* how many sink operations have failed
  records,      \* the record_event calls that have returned, in the order they held the mutex
  ecalls,       \* how many emitter calls the threads have begun
  flushed,      \* how many of the pieces in `output` the sink has flushed through
  wrote         \* wrote[i]: the call that wrote output[i] (0: from_output)

evars == <<built, output, lock, epc, ework, clock, fails, records, ecalls, flushed, wrote>>

(* The threads' programs: what they do through the macros of macros.rs.    *)
VARIABLES
  mac,          \* mac[t]: the macro invocation thread t is inside
  stack,        \* stack[t]: the durations t's program has open, innermost last
  dropped,      \* dropped[t]: the scope of t whose guard was dropped last
  early,        \* early[t]: has a macro of t begun while no tracer was installed
  nmacros       \* how many macro invocations and scope exits the threads have begun

mvars == <<mac, stack, dropped, early, nmacros>>

vars == <<fvars, evars, mvars>>

InstallKinds == {"set_tracer", "set_boxed_tracer"}
FacadeKinds == {"is_enabled", "supports_metadata", "record_event", "flush"}

(* cur[t]: the entry point, its tracer or event argument, the STATE value  *)
(* its first compare_exchange or its last load came back with, whether its *)
(* is_enabled loop has yielded, whether its is_enabled() came out true     *)
(* (and after how many flag changes), how often it has read the slot.      *)
NoCall == [kind |-> "none", tracer |-> None, event |-> NoEvent, observed |-> UNINITIALIZED,
           spun |-> FALSE, chk |-> FALSE, chkAt |-> 0, derefs |-> 0]

InstallCall(kind, tracer) == [NoCall EXCEPT !.kind = kind, !.tracer = tracer]

NewCall(kind, event) == [NoCall EXCEPT !.kind = kind, !.event = event]

(* ret[t]: the call, how it ended ("returned" or "panicked"), the bool it  *)
(* returned (is_enabled and supports_metadata), the STATE value it acted   *)
(* on, its TRACER reads, whether it yielded.                               *)
NoRet == [kind |-> "none", how |-> "none", value |-> FALSE, observed |-> UNINITIALIZED,
          derefs |-> 0, spun |-> FALSE]

EmitterThreads == {"e1", "e2"}

NoRecord == [name |-> None, ph |-> None, pid |-> 0, tid |-> 0, ts |-> 0, arg |-> None]

NoWork == [id |-> 0, kind |-> "none", event |-> NoEvent, record |-> NoRecord, todo |-> <<>>,
           failed |-> FALSE]

EmitterInit ==
  /\ built = FALSE
  /\ output = <<>>
  /\ lock = None
  /\ epc = [t \in EmitterThreads |-> "idle"]
  /\ ework = [t \in EmitterThreads |-> NoWork]
  /\ clock = 0
  /\ fails = 0
  /\ records = <<>>
  /\ ecalls = 0
  /\ flushed = 0
  /\ wrote = <<>>

(* mac[t]: the macro, its name and key/value pairs (None: the arm without  *)
(* pairs), the facade call it is waiting on, what its supports_metadata()  *)
(* returned, and for a scope: how often the tracer's flag had changed when *)
(* the scope was entered, what its begin did, the way it is left.          *)
NoMacro == [op |-> "none", name |-> None, pairs |-> None, at |-> "none", smd |-> FALSE,
            entry |-> 0, began |-> FALSE, path |-> "none"]

(* dropped[t]: a scope that has ended: was its guard Some, was its begin   *)
(* handed to the tracer, was its end, did the tracer's enabled flag change *)
(* between the scope's entry and its end, and the way the scope was left.  *)
NoScope == [name |-> None, guard |-> FALSE, began |-> FALSE, ended |-> FALSE,
            changed |-> FALSE, path |-> "none"]

MacroInit ==
  /\ mac = [t \in Threads |-> NoMacro]
  /\ stack = [t \in Threads |-> <<>>]
  /\ dropped = [t \in Threads |-> NoScope]
  /\ early = [t \in Threads |-> FALSE]
  /\ nmacros = 0

Init ==
  /\ EmitterInit
  /\ MacroInit
  /\ State = UNINITIALIZED
  /\ TRACER = None
  /\ pc = [t \in Threads |-> "idle"]
  /\ cur = [t \in Threads |-> NoCall]
  /\ ret = [t \in Threads |-> NoRet]
  /\ sent = [t \in Threads |-> <<>>]
  /\ enabled = [b \in Backends |-> TRUE]
  /\ received = [b \in Backends |-> <<>>]
  /\ toggles = 0
  /\ tracerWrites = 0
  /\ installLog = <<>>
  /\ ncalls = 0

RetOf(call, how, value) ==
  [kind |-> call.kind, how |-> how, value |-> value, observed |-> call.observed,
   derefs |-> call.derefs, spun |-> call.spun]

(* An install call ends: what it was, what it saw, how it ended.           *)
Logged(t, call, how) ==
  IF call.kind \in InstallKinds
    THEN Append(installLog, [thread |-> t, tracer |-> call.tracer, seen |-> call.observed,
                             how |-> how])
    ELSE installLog

(* A call of thread t returns (`value`, when it returns a bool).           *)
Return(t, call, value) ==
  /\ pc' = [pc EXCEPT ![t] = "idle"]
  /\ cur' = [cur EXCEPT ![t] = NoCall]
  /\ ret' = [ret EXCEPT ![t] = RetOf(call, "returned", value)]
  /\ installLog' = Logged(t, call, "returned")

(* A call of thread t panics: the thread unwinds and runs no further.      *)
Panic(t, call) ==
  /\ pc' = [pc EXCEPT ![t] = "panicked"]
  /\ cur' = [cur EXCEPT ![t] = NoCall]
  /\ ret' = [ret EXCEPT ![t] = RetOf(call, "panicked", FALSE)]
  /\ installLog' = Logged(t, call, "panicked")

CanCall(t) == pc[t] = "idle" /\ ncalls < MaxCalls

(* ------------------------------ installers ----------------------------- *)
(* Faulty variants of set_tracer_impl.  The claim is not atomic: a caller   *)
(* that finds the registry not yet Initialized goes on to install.         *)
set_tracer_impl_racy(t, call) ==
  /\ IF State # INITIALIZED
       THEN /\ State' = INITIALIZING
            /\ pc' = [pc EXCEPT ![t] = "set_store"]
            /\ cur' = [cur EXCEPT ![t] = [call EXCEPT !.observed = State]]
            /\ UNCHANGED <<ret, installLog>>
       ELSE /\ Panic(t, [call EXCEPT !.observed = State])
            /\ UNCHANGED State
  /\ ncalls' = ncalls + 1
  /\ UNCHANGED <<TRACER, sent, enabled, received, toggles, tracerWrites>>
  /\ UNCHANGED <<evars, mvars>>

(* The winner flags the registry Initialized before it stores the tracer.  *)
set_tracer_impl_publish_early(t, call) ==
  /\ IF State = UNINITIALIZED
       THEN /\ State' = INITIALIZED
            /\ pc' = [pc EXCEPT ![t] = "set_store"]
            /\ cur' = [cur EXCEPT ![t] = [call EXCEPT !.observed = State]]
            /\ UNCHANGED <<ret, installLog>>
       ELSE /\ Panic(t, [call EXCEPT !.observed = State])
            /\ UNCHANGED State
  /\ ncalls' = ncalls + 1
  /\ UNCHANGED <<TRACER, sent, enabled, received, toggles, tracerWrites>>
  /\ UNCHANGED <<evars, mvars>>

(* A second install is ignored: the call returns and installs nothing.     *)
set_tracer_impl_ignore(t, call) ==
  /\ IF State = UNINITIALIZED
       THEN /\ State' = INITIALIZING
            /\ pc' = [pc EXCEPT ![t] = "set_store"]
            /\ cur' = [cur EXCEPT ![t] = [call EXCEPT !.observed = State]]
            /\ UNCHANGED <<ret, installLog>>
       ELSE /\ Return(t, [call EXCEPT !.observed = State], FALSE)
            /\ UNCHANGED State
  /\ ncalls' = ncalls + 1
  /\ UNCHANGED <<TRACER, sent, enabled, received, toggles, tracerWrites>>
  /\ UNCHANGED <<evars, mvars>>

(* The tracer is stored before the compare_exchange decides who installs.  *)
set_tracer_impl_store_first(t, call) ==
  /\ TRACER' = call.tracer
  /\ tracerWrites' = tracerWrites + 1
  /\ IF State = UNINITIALIZED
       THEN /\ State' = INITIALIZING
            /\ pc' = [pc EXCEPT ![t] = "set_publish"]
            /\ cur' = [cur EXCEPT ![t] = [call EXCEPT !.observed = State]]
            /\ UNCHANGED <<ret, installLog>>
       ELSE /\ Panic(t, [call EXCEPT !.observed = State])
            /\ UNCHANGED State
  /\ ncalls' = ncalls + 1
  /\ UNCHANGED <<sent, enabled, received, toggles>>
  /\ UNCHANGED <<evars, mvars>>

(* set_tracer_impl up to its first match arm:                              *)
(* STATE.compare_exchange(UNINITIALIZED, INITIALIZING).                    *)
set_tracer_impl(t, call) ==
  /\ IF State = UNINITIALIZED
       THEN /\ State' = INITIALIZING
            /\ pc' = [pc EXCEPT ![t] = "set_store"]
            /\ cur' = [cur EXCEPT ![t] = [call EXCEPT !.observed = State]]
            /\ UNCHANGED <<ret, installLog>>
       ELSE /\ Panic(t, [call EXCEPT !.observed = State])
            /\ UNCHANGED State
  /\ ncalls' = ncalls + 1
  /\ UNCHANGED <<TRACER, sent, enabled, received, toggles, tracerWrites>>
  /\ UNCHANGED <<evars, mvars>>

set_tracer(t, b) ==
  /\ CanCall(t)
  /\ set_tracer_impl(t, InstallCall("set_tracer", b))

set_boxed_tracer(t, b) ==
  /\ CanCall(t)
  /\ set_tracer_impl(t, InstallCall("set_boxed_tracer", b))

(* TRACER = Some(tracer)                                                   *)
set_tracer_impl_store(t) ==
  /\ pc[t] = "set_store"
  /\ TRACER' = cur[t].tracer
  /\ tracerWrites' = tracerWrites + 1
  /\ pc' = [pc EXCEPT ![t] = "set_publish"]
  /\ UNCHANGED <<State, cur, ret, sent, enabled, received, toggles, installLog, ncalls>>
  /\ UNCHANGED <<evars, mvars>>

(* Faulty variant of set_tracer_impl_publish: the winner returns without   *)
(* the second compare_exchange, the registry stays Initializing.           *)
set_tracer_impl_publish_never(t) ==
  /\ pc[t] = "set_publish"
  /\ Return(t, cur[t], FALSE)
  /\ UNCHANGED <<State, TRACER, sent, enabled, received, toggles, tracerWrites, ncalls>>
  /\ UNCHANGED <<evars, mvars>>

(* STATE.compare_exchange(INITIALIZING, INITIALIZED).unwrap(); return      *)
set_tracer_impl_publish(t) ==
  /\ pc[t] = "set_publish"
  /\ IF State = INITIALIZING
       THEN /\ State' = INITIALIZED
            /\ Return(t, cur[t], FALSE)
       ELSE /\ Panic(t, cur[t])
            /\ UNCHANGED State
  /\ UNCHANGED <<TRACER, sent, enabled, received, toggles, tracerWrites, ncalls>>
  /\ UNCHANGED <<evars, mvars>>

(* --------------------------- facade entry points ----------------------- *)
(* Faulty variants of is_enabled_loop.  Initializing is taken for          *)
(* Initialized: the caller goes on to the tracer slot.                     *)
is_enabled_loop_proceed(t, call) ==
  LET seen == [call EXCEPT !.observed = State]
  IN CASE State = UNINITIALIZED ->
            Return(t, seen, FALSE)
       [] State \in {INITIALIZING, INITIALIZED} ->
            /\ cur' = [cur EXCEPT ![t] = seen]
            /\ pc' = [pc EXCEPT ![t] = "enabled"]
            /\ UNCHANGED <<ret, installLog>>
       [] OTHER -> Panic(t, seen)

(* Uninitialized is waited out like Initializing instead of answered with  *)
(* the disabled default.                                                   *)
is_enabled_loop_wait(t, call) ==
  LET seen == [call EXCEPT !.observed = State]
  IN CASE State \in {UNINITIALIZED, INITIALIZING} ->
            /\ cur' = [cur EXCEPT ![t] = [seen EXCEPT !.spun = TRUE]]
            /\ pc' = [pc EXCEPT ![t] = "load"]
            /\ UNCHANGED <<ret, installLog>>
       [] State = INITIALIZED ->
            /\ cur' = [cur EXCEPT ![t] = seen]
            /\ pc' = [pc EXCEPT ![t] = "enabled"]
            /\ UNCHANGED <<ret, installLog>>
       [] OTHER -> Panic(t, seen)

(* One turn of is_enabled's loop: STATE.load(Acquire) and the match.  On   *)
(* Uninitialized is_enabled returns false and its caller returns false or  *)
(* nothing (ret[t].value FALSE in both cases).                             *)
is_enabled_loop(t, call) ==
  LET seen == [call EXCEPT !.observed = State]
  IN CASE State = UNINITIALIZED ->
            Return(t, seen, FALSE)
       [] State = INITIALIZING ->
            /\ cur' = [cur EXCEPT ![t] = [seen EXCEPT !.spun = TRUE]]
            /\ pc' = [pc EXCEPT ![t] = "load"]
            /\ UNCHANGED <<ret, installLog>>
       [] State = INITIALIZED ->
            /\ cur' = [cur EXCEPT ![t] = seen]
            /\ pc' = [pc EXCEPT ![t] = "enabled"]
            /\ UNCHANGED <<ret, installLog>>
       [] OTHER -> Panic(t, seen)

FacadeCall(t, call) ==
  /\ is_enabled_loop(t, call)
  /\ ncalls' = ncalls + 1
  /\ UNCHANGED <<State, TRACER, sent, enabled, received, toggles, tracerWrites>>
  /\ UNCHANGED evars

is_enabled(t) ==
  /\ CanCall(t)
  /\ FacadeCall(t, NewCall("is_enabled", NoEvent))
  /\ UNCHANGED mvars

supports_metadata(t) ==
  /\ CanCall(t)
  /\ FacadeCall(t, NewCall("supports_metadata", NoEvent))
  /\ UNCHANGED mvars

record_event(t, e) ==
  /\ CanCall(t)
  /\ FacadeCall(t, NewCall("record_event", e))
  /\ UNCHANGED mvars

flush(t) ==
  /\ CanCall(t)
  /\ FacadeCall(t, NewCall("flush", NoEvent))
  /\ UNCHANGED mvars

(* INITIALIZING => std::thread::yield_now(), and the loop's next turn.     *)
is_enabled_yield(t) ==
  /\ pc[t] = "load"
  /\ is_enabled_loop(t, cur[t])
  /\ UNCHANGED <<State, TRACER, sent, enabled, received, toggles, tracerWrites, ncalls>>
  /\ UNCHANGED <<evars, mvars>>

(* unsafe { TRACER.unwrap() }                                              *)
get_tracer_assume_initialized == TRACER

(* Faulty variant of is_enabled_tracer: record_event, flush and            *)
(* supports_metadata go on to the tracer whatever is_enabled() returned.   *)
is_enabled_tracer_unchecked(t) ==
  /\ pc[t] = "enabled"
  /\ LET tracer == get_tracer_assume_initialized
         call == [cur[t] EXCEPT !.derefs = @ + 1]
     IN IF tracer = None
          THEN Panic(t, call) /\ UNCHANGED sent
          ELSE LET r == enabled[tracer]
                   chked == [call EXCEPT !.chk = r, !.chkAt = toggles]
               IN IF call.kind = "is_enabled"
                    THEN Return(t, chked, r) /\ UNCHANGED sent
                    ELSE /\ cur' = [cur EXCEPT ![t] = chked]
                         /\ pc' = [pc EXCEPT ![t] = "deleg"]
                         /\ sent' = [sent EXCEPT ![t] =
                                       IF call.kind = "record_event" /\ r
                                         THEN Append(@, call.event) ELSE @]
                         /\ UNCHANGED <<ret, installLog>>
  /\ UNCHANGED <<State, TRACER, enabled, received, toggles, tracerWrites, ncalls>>
  /\ UNCHANGED <<evars, mvars>>

(* INITIALIZED => return get_tracer_assume_initialized().is_enabled(),     *)
(* and the `if is_enabled()` of the calling entry point.                   *)
is_enabled_tracer(t) ==
  /\ pc[t] = "enabled"
  /\ LET tracer == get_tracer_assume_initialized
         call == [cur[t] EXCEPT !.derefs = @ + 1]
     IN IF tracer = None
          THEN Panic(t, call) /\ UNCHANGED sent
          ELSE LET r == enabled[tracer]
                   chked == [call EXCEPT !.chk = r, !.chkAt = toggles]
               IN IF call.kind = "is_enabled"
                    THEN Return(t, chked, r) /\ UNCHANGED sent
                    ELSE IF r
                           THEN /\ cur' = [cur EXCEPT ![t] = chked]
                                /\ pc' = [pc EXCEPT ![t] = "deleg"]
                                /\ sent' = [sent EXCEPT ![t] =
                                              IF call.kind = "record_event"
                                                THEN Append(@, call.event) ELSE @]
                                /\ UNCHANGED <<ret, installLog>>
                           ELSE /\ Return(t, chked, FALSE)
                                /\ UNCHANGED sent
  /\ UNCHANGED <<State, TRACER, enabled, received, toggles, tracerWrites, ncalls>>
  /\ UNCHANGED <<evars, mvars>>

(* get_tracer_assume_initialized().supports_metadata()                     *)
supports_metadata_tracer(t) ==
  /\ pc[t] = "deleg"
  /\ cur[t].kind = "supports_metadata"
  /\ LET tracer == get_tracer_assume_initialized
         call == [cur[t] EXCEPT !.derefs = @ + 1]
     IN IF tracer = None
          THEN Panic(t, call)
          ELSE Return(t, call, Tracer_supports_metadata(tracer))
  /\ UNCHANGED <<State, TRACER, sent, enabled, received, toggles, tracerWrites, ncalls>>
  /\ UNCHANGED <<evars, mvars>>

(* Backend b is handed a call by thread t: it joins what b received, with  *)
(* what b's is_enabled() reports at that moment, what the facade's         *)
(* is_enabled() had returned to the caller, and whether b's flag changed   *)
(* in between.                                                             *)
Tracer_receive(b, t, call) ==
  Append(received[b], [thread |-> t, op |-> call.kind, event |-> call.event,
                       enabled |-> enabled[b], checked |-> call.chk,
                       stale |-> call.chkAt # toggles, observed |-> call.observed])

(* Faulty variant of record_event_tracer: the event is dropped on the way. *)
record_event_tracer_drop(t) ==
  /\ pc[t] = "deleg"
  /\ cur[t].kind = "record_event"
  /\ Return(t, [cur[t] EXCEPT !.derefs = @ + 1], FALSE)
  /\ UNCHANGED <<State, TRACER, sent, enabled, received, toggles, tracerWrites, ncalls>>
  /\ UNCHANGED <<evars, mvars>>

(* get_tracer_assume_initialized().record_event(event)                     *)
record_event_tracer(t) ==
  /\ pc[t] = "deleg"
  /\ cur[t].kind = "record_event"
  /\ LET tracer == get_tracer_assume_initialized
         call == [cur[t] EXCEPT !.derefs = @ + 1]
     IN IF tracer = None
          THEN Panic(t, call) /\ UNCHANGED received
          ELSE /\ received' = [received EXCEPT ![tracer] = Tracer_receive(tracer, t, call)]
               /\ Return(t, call, FALSE)
  /\ UNCHANGED <<State, TRACER, sent, enabled, toggles, tracerWrites, ncalls>>
  /\ UNCHANGED <<evars, mvars>>

(* get_tracer_assume_initialized().flush()                                 *)
flush_tracer(t) ==
  /\ pc[t] = "deleg"
  /\ cur[t].kind = "flush"
  /\ LET tracer == get_tracer_assume_initialized
         call == [cur[t] EXCEPT !.derefs = @ + 1]
     IN IF tracer = None
          THEN Panic(t, call) /\ UNCHANGED received
          ELSE /\ received' = [received EXCEPT ![tracer] = Tracer_receive(tracer, t, call)]
               /\ Return(t, call, FALSE)
  /\ UNCHANGED <<State, TRACER, sent, enabled, toggles, tracerWrites, ncalls>>
  /\ UNCHANGED <<evars, mvars>>

(* The "spy" backend changes what its is_enabled() reports (the flag is    *)
(* the backend's own: the application may switch it at any time).          *)
Tracer_is_enabled_change(b) ==
  /\ b = "spy"
  /\ toggles < MaxToggles
  /\ toggles' = toggles + 1
  /\ enabled' = [enabled EXCEPT ![b] = ~@]
  /\ UNCHANGED <<State, TRACER, pc, cur, ret, sent, received, tracerWrites, installLog,
                 ncalls>>
  /\ UNCHANGED <<evars, mvars>>

InstallerStep(t) ==
  \/ set_tracer_impl_store(t)
  \/ set_tracer_impl_publish(t)

ReaderStep(t) ==
  \/ is_enabled_yield(t)
  \/ is_enabled_tracer(t)
  \/ supports_metadata_tracer(t)
  \/ record_event_tracer(t)
  \/ flush_tracer(t)

Next ==
  \/ \E t \in Threads, b \in Backends : set_tracer(t, b)
  \/ \E t \in Threads, b \in Backends : set_boxed_tracer(t, b)
  \/ \E t \in Threads : is_enabled(t)
  \/ \E t \in Threads : supports_metadata(t)
  \/ \E t \in Threads, e \in Events : record_event(t, e)
  \/ \E t \in Threads : flush(t)
  \/ \E t \in Threads : InstallerStep(t)
  \/ \E t \in Threads : ReaderStep(t)
  \/ \E b \in Backends : Tracer_is_enabled_change(b)

Spec == Init /\ [][Next]_vars

(* The threads are scheduled fairly: a thread inside a call keeps running. *)
FairSpec ==
  /\ Spec
  /\ \A t \in Threads : WF_vars(InstallerStep(t)) /\ WF_vars(ReaderStep(t))

(* ================================ macros =============================== *)
(* The programs name their durations by nesting depth, as the crate's      *)
(* example does: "foo" outermost, "bar" inside it.                         *)
MacroName(t) ==
  CASE Len(stack[t]) = 0 -> "foo"
    [] Len(stack[t]) = 1 -> "bar"
    [] OTHER -> "baz"

(* json!({"value": 42}), the key/value pairs of a macro invocation.        *)
Pairs == "{\"value\":42}"

(* How a scope is left: falling off its end, an early return, a panic      *)
(* unwinding through it.  The guard is dropped on each of them.            *)
ExitPaths == {"end", "return", "unwind"}

(* A duration the program has open: begun by trace_begin! ("manual") or a  *)
(* trace_scoped! scope with its `guard` (TRUE: Some), and whether its      *)
(* begin event was handed to the tracer; `entry`: the flag changes counted *)
(* when it was opened.                                                     *)
Frame(kind, name, guard, began, entry) ==
  [kind |-> kind, name |-> name, guard |-> guard, began |-> began, entry |-> entry]

Top(t) == stack[t][Len(stack[t])]

Pop(t) == SubSeq(stack[t], 1, Len(stack[t]) - 1)

MacroKind(op) == IF op \in {"trace_begin", "trace_scoped"} THEN "SyncBegin" ELSE "SyncEnd"

(* Thread t is between two macro invocations.                              *)
Ready(t) == pc[t] = "idle" /\ mac[t].at = "none"

CanInvoke(t) == Ready(t) /\ nmacros < MaxMacros

(* A macro invocation begins: its first facade call is is_enabled().       *)
Invoke(t, m) ==
  /\ mac' = [mac EXCEPT ![t] = m]
  /\ FacadeCall(t, NewCall("is_enabled", NoEvent))
  /\ early' = [early EXCEPT ![t] = @ \/ State # INITIALIZED]
  /\ nmacros' = nmacros + 1

(* trace_begin!(name) and trace_begin!(name, pairs): if $crate::is_enabled() *)
trace_begin(t, pairs) ==
  /\ CanInvoke(t)
  /\ Len(stack[t]) < MaxDepth
  /\ Invoke(t, [NoMacro EXCEPT !.op = "trace_begin", !.name = MacroName(t), !.pairs = pairs,
                               !.at = "check"])
  /\ UNCHANGED <<stack, dropped>>

(* trace_end!(name) and trace_end!(name, pairs), balanced: it names the    *)
(* innermost open duration, which a trace_begin! opened.                   *)
trace_end(t, pairs) ==
  /\ CanInvoke(t)
  /\ stack[t] # <<>>
  /\ Top(t).kind = "manual"
  /\ Invoke(t, [NoMacro EXCEPT !.op = "trace_end", !.name = Top(t).name, !.pairs = pairs,
                               !.at = "check"])
  /\ UNCHANGED <<stack, dropped>>

(* trace_scoped!(name): let guard = if $crate::is_enabled()                *)
(* The arm taking pairs hands the token `metadata` to trace_begin!, whose  *)
(* json!({metadata}) has a key without a value; it is left out.            *)
trace_scoped(t) ==
  /\ CanInvoke(t)
  /\ Len(stack[t]) < MaxDepth
  /\ Invoke(t, [NoMacro EXCEPT !.op = "trace_scoped", !.name = MacroName(t),
                               !.at = "scoped_check", !.entry = toggles])
  /\ UNCHANGED <<stack, dropped>>

(* A macro invocation ends; `delivered`: its event was handed to the       *)
(* tracer.  trace_begin! leaves a duration open, trace_scoped! leaves its  *)
(* guard (Some) in the scope, trace_end! closes the innermost duration,    *)
(* the guard's closure has run and the scope is gone.                      *)
MacroEnd(t, delivered) ==
  LET m == mac[t]
  IN /\ mac' = [mac EXCEPT ![t] = NoMacro]
     /\ stack' = [stack EXCEPT ![t] =
                    CASE m.op = "trace_begin" ->
                           Append(@, Frame("manual", m.name, FALSE, delivered, m.entry))
                      [] m.op = "trace_scoped" ->
                           Append(@, Frame("scope", m.name, TRUE, delivered, m.entry))
                      [] m.op = "trace_end" -> Pop(t)
                      [] OTHER -> @]
     /\ dropped' = [dropped EXCEPT ![t] =
                      IF m.op = "guard"
                        THEN [name |-> m.name, guard |-> TRUE, began |-> m.began,
                              ended |-> delivered, changed |-> m.entry # toggles,
                              path |-> m.path]
                        ELSE @]
     /\ UNCHANGED <<early, nmacros>>

(* Faulty variant of scope_exit: the guards are dropped in the order they  *)
(* were made, the outermost scope first.                                   *)
scope_exit_outermost(t, path) ==
  /\ CanInvoke(t)
  /\ stack[t] # <<>>
  /\ Top(t).kind = "scope"
  /\ stack' = [stack EXCEPT ![t] = Tail(@)]
  /\ IF Head(stack[t]).guard
       THEN /\ Invoke(t, [NoMacro EXCEPT !.op = "guard", !.name = Head(stack[t]).name,
                                    !.at = "check", !.entry = Head(stack[t]).entry,
                                    !.began = Head(stack[t]).began, !.path = path])
            /\ UNCHANGED dropped
       ELSE /\ dropped' = [dropped EXCEPT ![t] =
                             [NoScope EXCEPT !.name = Head(stack[t]).name, !.path = path,
                                             !.changed = Head(stack[t]).entry # toggles]]
            /\ nmacros' = nmacros + 1
            /\ UNCHANGED <<mac, early>>
            /\ UNCHANGED <<fvars, evars>>

(* Faulty variant of scope_exit: the end is issued where the scope's block *)
(* ends, not by a guard: an early return or a panic skips it.              *)
scope_exit_at_block_end(t, path) ==
  /\ CanInvoke(t)
  /\ stack[t] # <<>>
  /\ Top(t).kind = "scope"
  /\ stack' = [stack EXCEPT ![t] = Pop(t)]
  /\ IF Top(t).guard /\ path = "end"
       THEN /\ Invoke(t, [NoMacro EXCEPT !.op = "guard", !.name = Top(t).name, !.at = "check",
                                    !.entry = Top(t).entry, !.began = Top(t).began,
                                    !.path = path])
            /\ UNCHANGED dropped
       ELSE /\ dropped' = [dropped EXCEPT ![t] =
                             [NoScope EXCEPT !.name = Top(t).name, !.path = path,
                                             !.guard = Top(t).guard,
                                             !.began = Top(t).began,
                                             !.changed = Top(t).entry # toggles]]
            /\ nmacros' = nmacros + 1
            /\ UNCHANGED <<mac, early>>
            /\ UNCHANGED <<fvars, evars>>

(* The innermost scope is left, on any path: its `guard` is dropped.  A    *)
(* guard that is Some runs its closure, trace_end!(name); None does        *)
(* nothing.                                                                *)
scope_exit(t, path) ==
  /\ CanInvoke(t)
  /\ stack[t] # <<>>
  /\ Top(t).kind = "scope"
  /\ stack' = [stack EXCEPT ![t] = Pop(t)]
  /\ IF Top(t).guard
       THEN /\ Invoke(t, [NoMacro EXCEPT !.op = "guard", !.name = Top(t).name, !.at = "check",
                                    !.entry = Top(t).entry, !.began = Top(t).began,
                                    !.path = path])
            /\ UNCHANGED dropped
       ELSE /\ dropped' = [dropped EXCEPT ![t] =
                             [NoScope EXCEPT !.name = Top(t).name, !.path = path,
                                             !.changed = Top(t).entry # toggles]]
            /\ nmacros' = nmacros + 1
            /\ UNCHANGED <<mac, early>>
            /\ UNCHANGED <<fvars, evars>>

(* trace_scoped!'s is_enabled() has returned.  true: $crate::trace_begin!( *)
(* name.clone()), whose first call is is_enabled() again; false: the guard *)
(* is None.                                                                *)
trace_scoped_enabled(t) ==
  /\ pc[t] = "idle"
  /\ mac[t].at = "scoped_check"
  /\ IF ret[t].value
       THEN /\ mac' = [mac EXCEPT ![t].at = "check"]
            /\ FacadeCall(t, NewCall("is_enabled", NoEvent))
            /\ UNCHANGED <<stack, dropped, early, nmacros>>
       ELSE /\ mac' = [mac EXCEPT ![t] = NoMacro]
            /\ stack' = [stack EXCEPT ![t] =
                           Append(@, Frame("scope", mac[t].name, FALSE, FALSE, mac[t].entry))]
            /\ UNCHANGED <<dropped, early, nmacros>>
            /\ UNCHANGED <<fvars, evars>>

(* The is_enabled() of trace_begin! / trace_end! has returned.  true: the  *)
(* arm without pairs builds its event with Metadata::default() and records *)
(* it, the arm with pairs asks supports_metadata(); false: the macro does  *)
(* nothing.                                                                *)
trace_is_enabled(t) ==
  /\ pc[t] = "idle"
  /\ mac[t].at = "check"
  /\ IF ret[t].value
       THEN /\ IF mac[t].pairs = None
                 THEN /\ FacadeCall(t, NewCall("record_event",
                                               Event(mac[t].name, MacroKind(mac[t].op),
                                                     Metadata_default)))
                      /\ mac' = [mac EXCEPT ![t].at = "record"]
                 ELSE /\ FacadeCall(t, NewCall("supports_metadata", NoEvent))
                      /\ mac' = [mac EXCEPT ![t].at = "md"]
            /\ UNCHANGED <<stack, dropped, early, nmacros>>
       ELSE /\ MacroEnd(t, FALSE)
            /\ UNCHANGED <<fvars, evars>>

(* Faulty variant of trace_supports_metadata: the metadata is built from   *)
(* the pairs whatever supports_metadata() returned.                        *)
trace_supports_metadata_unasked(t) ==
  /\ pc[t] = "idle"
  /\ mac[t].at = "md"
  /\ FacadeCall(t, NewCall("record_event",
                           Event(mac[t].name, MacroKind(mac[t].op),
                                 Metadata_from_json(mac[t].pairs))))
  /\ mac' = [mac EXCEPT ![t].at = "record", ![t].smd = ret[t].value]
  /\ UNCHANGED <<stack, dropped, early, nmacros>>

(* let metadata = if $crate::supports_metadata() { Metadata::from_json(    *)
(* json!({pairs})) } else { Metadata::default() }; then the event is built *)
(* and handed to record_event.                                             *)
trace_supports_metadata(t) ==
  /\ pc[t] = "idle"
  /\ mac[t].at = "md"
  /\ LET metadata == IF ret[t].value THEN Metadata_from_json(mac[t].pairs)
                                     ELSE Metadata_default
     IN FacadeCall(t, NewCall("record_event",
                              Event(mac[t].name, MacroKind(mac[t].op), metadata)))
  /\ mac' = [mac EXCEPT ![t].at = "record", ![t].smd = ret[t].value]
  /\ UNCHANGED <<stack, dropped, early, nmacros>>

(* $crate::record_event(event) has returned: the macro is done.  The event *)
(* reached the tracer if the call read the slot twice (for its is_enabled  *)
(* check and for the tracer's record_event).                               *)
trace_record_event(t) ==
  /\ pc[t] = "idle"
  /\ mac[t].at = "record"
  /\ MacroEnd(t, ret[t].derefs = 2)
  /\ UNCHANGED <<fvars, evars>>

(* The threads of the traced program: its main thread installs the tracer, *)
(* a worker traces, before, while and after main does so.                  *)
Mains == {"t2"}

Workers == {"t1"}

(* The program's main installs its tracer, as the crate's example does,    *)
(* before or while other threads are tracing.                              *)
main(t, b) ==
  /\ Ready(t)
  /\ stack[t] = <<>>
  /\ State = UNINITIALIZED
  /\ set_boxed_tracer(t, b)

MacroNext ==
  \/ \E t \in Mains, b \in Backends : main(t, b)
  \/ \E t \in Workers, pairs \in {None, Pairs} : trace_begin(t, pairs)
  \/ \E t \in Workers, pairs \in {None, Pairs} : trace_end(t, pairs)
  \/ \E t \in Workers : trace_scoped(t)
  \/ \E t \in Workers, path \in ExitPaths : scope_exit(t, path)
  \/ \E t \in Threads : trace_scoped_enabled(t)
  \/ \E t \in Threads : trace_is_enabled(t)
  \/ \E t \in Threads : trace_supports_metadata(t)
  \/ \E t \in Threads : trace_record_event(t)
  \/ \E t \in Threads : InstallerStep(t)
  \/ \E t \in Threads : is_enabled_yield(t)
  \/ \E t \in Threads : is_enabled_tracer(t)
  \/ \E t \in Threads : supports_metadata_tracer(t)
  \/ \E t \in Threads : record_event_tracer(t)
  \/ \E b \in Backends : Tracer_is_enabled_change(b)

MacroSpec == Init /\ [][MacroNext]_vars

(* ============================ Chromium emitter ========================= *)
(* std::process::id() and gettid::gettid() as u32                          *)
Pid == 7

Tid(t) == IF t = "e1" THEN 1 ELSE 2

(* let phase = match event.kind { SyncBegin => "B", SyncEnd => "E" }       *)
Phase(kind) == IF kind = "SyncBegin" THEN "B" ELSE "E"

(* struct Record, as write_event fills it.                                 *)
Record(event, t, now) ==
  [name |-> event.name, ph |-> Phase(event.kind), pid |-> Pid, tid |-> Tid(t), ts |-> now,
   arg |-> Metadata_into_json(event.metadata)]

(* A piece of the stream: a punctuation mark, or a field of a record with  *)
(* its text or its number.                                                 *)
Mark(c) == [key |-> c, text |-> "", number |-> 0]

TextField(key, text) == [key |-> key, text |-> text, number |-> 0]

NumberField(key, number) == [key |-> key, text |-> "", number |-> number]

(* #[derive(Serialize)] on Record, through serde_json::to_writer: the      *)
(* pieces it writes to the sink one after the other.  An Option that is    *)
(* None is written as null.                                                *)
Serialize(r) ==
  << Mark("{"), TextField("name", r.name), TextField("ph", r.ph), NumberField("pid", r.pid),
     NumberField("tid", r.tid), NumberField("ts", r.ts),
     TextField("arg", IF r.arg = None THEN "null" ELSE r.arg), Mark("}") >>

(* How many of a record's pieces the serializer hands the sink in one      *)
(* write.                                                                  *)
WriteLen == 4

(* A sink operation fails only while the failure budget lasts.             *)
SinkOutcomes == IF fails < MaxFails THEN {TRUE, FALSE} ELSE {TRUE}

(* Tracer::from_output: let _ = output.write_all(b"["); Mutex::new(output) *)
from_output(ok) ==
  /\ ~built
  /\ built' = TRUE
  /\ output' = IF ok THEN Append(output, Mark("[")) ELSE output
  /\ wrote' = IF ok THEN Append(wrote, 0) ELSE wrote
  /\ fails' = IF ok THEN fails ELSE fails + 1
  /\ UNCHANGED <<lock, epc, ework, clock, records, ecalls, flushed>>
  /\ UNCHANGED <<fvars, mvars>>

CanEmit(t) == built /\ epc[t] = "idle" /\ ecalls < MaxEmits

(* Tracer::record_event is called: the thread goes for the mutex.          *)
Chromium_record_event(t, e) ==
  /\ CanEmit(t)
  /\ epc' = [epc EXCEPT ![t] = "lock"]
  /\ ework' = [ework EXCEPT ![t] = [NoWork EXCEPT !.id = ecalls + 1, !.kind = "record_event",
                                                   !.event = e]]
  /\ ecalls' = ecalls + 1
  /\ UNCHANGED <<built, output, lock, clock, fails, records, flushed, wrote>>
  /\ UNCHANGED <<fvars, mvars>>

(* Tracer::flush is called: the thread goes for the mutex.                 *)
Chromium_flush(t) ==
  /\ CanEmit(t)
  /\ epc' = [epc EXCEPT ![t] = "lock"]
  /\ ework' = [ework EXCEPT ![t] = [NoWork EXCEPT !.id = ecalls + 1, !.kind = "flush"]]
  /\ ecalls' = ecalls + 1
  /\ UNCHANGED <<built, output, lock, clock, fails, records, flushed, wrote>>
  /\ UNCHANGED <<fvars, mvars>>

(* Faulty variants of Mutex_lock.  The sink is not guarded: a call goes on *)
(* while another holds it.                                                 *)
Mutex_lock_unguarded(t) ==
  /\ epc[t] = "lock"
  /\ lock' = t
  /\ IF ework[t].kind = "record_event"
       THEN LET record == Record(ework[t].event, t, clock)
            IN /\ ework' = [ework EXCEPT ![t].record = record, ![t].todo = Serialize(record)]
               /\ epc' = [epc EXCEPT ![t] = "to_writer"]
       ELSE /\ epc' = [epc EXCEPT ![t] = "flush"]
            /\ UNCHANGED ework
  /\ UNCHANGED <<built, output, clock, fails, records, ecalls, flushed, wrote>>
  /\ UNCHANGED <<fvars, mvars>>

(* The timestamp is one taken before the mutex was acquired.               *)
Mutex_lock_stale_now(t) ==
  /\ epc[t] = "lock"
  /\ lock = None
  /\ lock' = t
  /\ IF ework[t].kind = "record_event"
       THEN \E now \in 0..clock :
              LET record == Record(ework[t].event, t, now)
              IN /\ ework' = [ework EXCEPT ![t].record = record,
                                           ![t].todo = Serialize(record)]
                 /\ epc' = [epc EXCEPT ![t] = "to_writer"]
       ELSE /\ epc' = [epc EXCEPT ![t] = "flush"]
            /\ UNCHANGED ework
  /\ UNCHANGED <<built, output, clock, fails, records, ecalls, flushed, wrote>>
  /\ UNCHANGED <<fvars, mvars>>

(* self.output.lock().unwrap(); in record_event write_event then reads the *)
(* clock and builds the Record.                                            *)
Mutex_lock(t) ==
  /\ epc[t] = "lock"
  /\ lock = None
  /\ lock' = t
  /\ IF ework[t].kind = "record_event"
       THEN LET record == Record(ework[t].event, t, clock)
            IN /\ ework' = [ework EXCEPT ![t].record = record, ![t].todo = Serialize(record)]
               /\ epc' = [epc EXCEPT ![t] = "to_writer"]
       ELSE /\ epc' = [epc EXCEPT ![t] = "flush"]
            /\ UNCHANGED ework
  /\ UNCHANGED <<built, output, clock, fails, records, ecalls, flushed, wrote>>
  /\ UNCHANGED <<fvars, mvars>>

(* let _ = serde_json::to_writer(&mut output, &record): the serializer     *)
(* writes to the sink in several writes; one of them is made, or it fails  *)
(* and to_writer gives up with an Err that is dropped.                     *)
write_event_to_writer(t, ok) ==
  /\ epc[t] = "to_writer"
  /\ IF ok
       THEN /\ output' = output \o SubSeq(ework[t].todo, 1, WriteLen)
            /\ wrote' = wrote \o [i \in 1..WriteLen |-> ework[t].id]
            /\ ework' = [ework EXCEPT ![t].todo = SubSeq(@, WriteLen + 1, Len(@))]
            /\ epc' = [epc EXCEPT ![t] = IF Len(ework[t].todo) = WriteLen THEN "comma"
                                                                          ELSE "to_writer"]
            /\ UNCHANGED fails
       ELSE /\ fails' = fails + 1
            /\ ework' = [ework EXCEPT ![t].failed = TRUE]
            /\ epc' = [epc EXCEPT ![t] = "comma"]
            /\ UNCHANGED <<output, wrote>>
  /\ UNCHANGED <<built, lock, clock, records, ecalls, flushed>>
  /\ UNCHANGED <<fvars, mvars>>

(* Faulty variant of write_event_comma: a call whose serialization failed  *)
(* returns without releasing the mutex.                                    *)
write_event_comma_keeps_lock(t, ok) ==
  /\ epc[t] = "comma"
  /\ output' = IF ok THEN Append(output, Mark(",")) ELSE output
  /\ wrote' = IF ok THEN Append(wrote, ework[t].id) ELSE wrote
  /\ fails' = IF ok THEN fails ELSE fails + 1
  /\ records' = Append(records, [thread |-> t, event |-> ework[t].event,
                                 record |-> ework[t].record,
                                 ok |-> ok /\ ~ework[t].failed])
  /\ lock' = IF ework[t].failed THEN lock ELSE None
  /\ epc' = [epc EXCEPT ![t] = "idle"]
  /\ ework' = [ework EXCEPT ![t] = NoWork]
  /\ UNCHANGED <<built, clock, ecalls, flushed>>
  /\ UNCHANGED <<fvars, mvars>>

(* let _ = output.write_all(b","); then the guard drops and record_event   *)
(* returns.                                                                *)
write_event_comma(t, ok) ==
  /\ epc[t] = "comma"
  /\ output' = IF ok THEN Append(output, Mark(",")) ELSE output
  /\ wrote' = IF ok THEN Append(wrote, ework[t].id) ELSE wrote
  /\ fails' = IF ok THEN fails ELSE fails + 1
  /\ records' = Append(records, [thread |-> t, event |-> ework[t].event,
                                 record |-> ework[t].record,
                                 ok |-> ok /\ ~ework[t].failed])
  /\ lock' = None
  /\ epc' = [epc EXCEPT ![t] = "idle"]
  /\ ework' = [ework EXCEPT ![t] = NoWork]
  /\ UNCHANGED <<built, clock, ecalls, flushed>>
  /\ UNCHANGED <<fvars, mvars>>

(* Faulty variant of Chromium_flush_output: flush closes the JSON array.   *)
Chromium_flush_output_closes(t, ok) ==
  /\ epc[t] = "flush"
  /\ output' = IF ok THEN Append(output, Mark("]")) ELSE output
  /\ wrote' = IF ok THEN Append(wrote, ework[t].id) ELSE wrote
  /\ flushed' = IF ok THEN Len(output) + 1 ELSE flushed
  /\ fails' = IF ok THEN fails ELSE fails + 1
  /\ lock' = None
  /\ epc' = [epc EXCEPT ![t] = "idle"]
  /\ ework' = [ework EXCEPT ![t] = NoWork]
  /\ UNCHANGED <<built, clock, records, ecalls>>
  /\ UNCHANGED <<fvars, mvars>>

(* let _ = self.output.lock().unwrap().flush(); the sink passes on what   *)
(* was written to it and adds nothing; an error is dropped and leaves the  *)
(* sink as it was.  The guard drops and flush returns.                     *)
Chromium_flush_output(t, ok) ==
  /\ epc[t] = "flush"
  /\ flushed' = IF ok THEN Len(output) ELSE flushed
  /\ fails' = IF ok THEN fails ELSE fails + 1
  /\ lock' = None
  /\ epc' = [epc EXCEPT ![t] = "idle"]
  /\ ework' = [ework EXCEPT ![t] = NoWork]
  /\ UNCHANGED <<built, output, clock, records, ecalls, wrote>>
  /\ UNCHANGED <<fvars, mvars>>

(* The clock behind time::precise_time_ns() moves on.                      *)
Tick ==
  /\ clock < MaxClock
  /\ clock' = clock + 1
  /\ UNCHANGED <<built, output, lock, epc, ework, fails, records, ecalls, flushed, wrote>>
  /\ UNCHANGED <<fvars, mvars>>

EmitterNext ==
  \/ \E ok \in SinkOutcomes : from_output(ok)
  \/ \E t \in EmitterThreads, e \in EmitterEvents : Chromium_record_event(t, e)
  \/ \E t \in EmitterThreads : Chromium_flush(t)
  \/ \E t \in EmitterThreads : Mutex_lock(t)
  \/ \E t \in EmitterThreads, ok \in SinkOutcomes : write_event_to_writer(t, ok)
  \/ \E t \in EmitterThreads, ok \in SinkOutcomes : write_event_comma(t, ok)
  \/ \E t \in EmitterThreads, ok \in SinkOutcomes : Chromium_flush_output(t, ok)
  \/ Tick

EmitterSpec == Init /\ [][EmitterNext]_vars

(* What a thread does while it holds the mutex.                            *)
EmitterStep(t) ==
  \E ok \in SinkOutcomes :
    \/ write_event_to_writer(t, ok)
    \/ write_event_comma(t, ok)
    \/ Chromium_flush_output(t, ok)

(* The threads are scheduled fairly: a thread holding the mutex keeps      *)
(* running, and a thread waiting for a mutex that stays free acquires it.  *)
FairEmitterSpec ==
  /\ EmitterSpec
  /\ \A t \in EmitterThreads : WF_vars(EmitterStep(t)) /\ WF_vars(Mutex_lock(t))

(* ======================= the registry and the facade =================== *)
InstallsInFlight == {t \in Threads : pc[t] \in {"set_store", "set_publish"}}

LogIndex(how) == {i \in DOMAIN installLog : installLog[i].how = how}

(* The record_event events backend b was handed by thread t, in order.     *)
RECURSIVE EventsOf(_, _)
EventsOf(log, t) ==
  IF log = <<>> THEN <<>>
  ELSE LET h == Head(log)
       IN IF h.thread = t /\ h.op = "record_event"
            THEN <<h.event>> \o EventsOf(Tail(log), t)
            ELSE EventsOf(Tail(log), t)

(* C1: of the install calls racing from Uninitialized at most one is ever  *)
(* past the first compare_exchange, and once no install is in flight       *)
(* exactly one of the calls made has returned normally while every other   *)
(* one has panicked: never two winners, never none.                        *)
C1_ExactlyOneInstallerWins ==
  /\ Cardinality(InstallsInFlight) + Cardinality(LogIndex("returned")) <= 1
  /\ (InstallsInFlight = {} /\ Len(installLog) > 0) =>
       /\ Cardinality(LogIndex("returned")) = 1
       /\ Cardinality(LogIndex("panicked")) = Len(installLog) - 1

(* Two threads raced: the loser panicked inside the winner's Initializing  *)
(* window, before the winner returned.                                     *)
C1_Witness ==
  /\ InstallsInFlight = {}
  /\ Cardinality({installLog[i].thread : i \in DOMAIN installLog}) = Cardinality(Threads)
  /\ Cardinality(LogIndex("returned")) = 1
  /\ installLog[1].how = "panicked" /\ installLog[1].seen = INITIALIZING

(* C2: a thread that is about to read the TRACER slot, or has read it,     *)
(* finds the registry Initialized and the slot holding the tracer of the   *)
(* install call that returned; no unwrap of the slot has ever panicked and *)
(* no other tracer was ever handed a call.                                 *)
C2_NoPartiallyPublishedTracer ==
  /\ \A t \in Threads :
       pc[t] \in {"enabled", "deleg"} =>
         /\ State = INITIALIZED
         /\ TRACER # None
         /\ \E i \in LogIndex("returned") : installLog[i].tracer = TRACER
  /\ \A t \in Threads : pc[t] = "panicked" => ret[t].kind \in InstallKinds
  /\ \A b \in Backends : received[b] # <<>> => b = TRACER

(* A reader that yielded in the Initializing window is reading the slot.   *)
C2_Witness ==
  \E t \in Threads : pc[t] = "deleg" /\ cur[t].spun /\ cur[t].derefs = 1

(* C3: an install call that finds the registry claimed (Initializing or    *)
(* Initialized) panics and one that finds it Uninitialized returns         *)
(* normally; no install call is in flight that found the registry claimed. *)
C3_SecondInstallPanics ==
  /\ \A i \in DOMAIN installLog :
       installLog[i].how =
         (IF installLog[i].seen = UNINITIALIZED THEN "returned" ELSE "panicked")
  /\ \A t \in InstallsInFlight : cur[t].observed = UNINITIALIZED

(* An install returned, and a later one met Initialized and panicked.      *)
C3_Witness ==
  /\ LogIndex("returned") # {}
  /\ \E i \in LogIndex("panicked") : installLog[i].seen = INITIALIZED

(* A step of a facade entry point (a call begun, continued or ended).      *)
FacadeStep ==
  \/ \E t \in Threads : cur[t].kind \in FacadeKinds /\ (pc'[t] # pc[t] \/ cur'[t] # cur[t])
  \/ /\ ncalls' # ncalls
     /\ installLog' = installLog
     /\ \A t \in Threads : pc'[t] = "set_store" => pc[t] = "set_store"

(* C4: STATE only steps Uninitialized -> Initializing -> Initialized; the  *)
(* TRACER slot is assigned once in the whole run, by the thread that won   *)
(* the first transition and while STATE is Initializing; a panicking       *)
(* install and every facade step leave STATE and TRACER as they were.      *)
C4_WriteOnceStateMachine ==
  [][/\ State' # State =>
          \/ State = UNINITIALIZED /\ State' = INITIALIZING
          \/ State = INITIALIZING /\ State' = INITIALIZED
     /\ TRACER' # TRACER => tracerWrites' # tracerWrites
     /\ tracerWrites' # tracerWrites =>
          /\ tracerWrites = 0 /\ tracerWrites' = 1
          /\ State = INITIALIZING /\ State' = INITIALIZING
          /\ \E t \in Threads : /\ pc[t] = "set_store" /\ pc'[t] = "set_publish"
                                /\ TRACER' = cur[t].tracer
     /\ (State = UNINITIALIZED) = (TRACER = None /\ InstallsInFlight = {})
     /\ Len(installLog') > Len(installLog) /\ installLog'[Len(installLog')].how = "panicked" =>
          UNCHANGED <<State, TRACER>>
     /\ FacadeStep => UNCHANGED <<State, TRACER>>
    ]_vars

(* Initialized with the slot written once, after a loser panicked and a    *)
(* facade call delegated.                                                  *)
C4_Witness ==
  /\ State = INITIALIZED /\ tracerWrites = 1 /\ TRACER # None
  /\ LogIndex("panicked") # {}
  /\ \E t \in Threads : ret[t].kind \in FacadeKinds /\ ret[t].derefs = 2

(* C5: a facade call that finds STATE Uninitialized returns the disabled   *)
(* default (false, or nothing) at once: it has not read the TRACER slot    *)
(* and has not yielded; while STATE is Uninitialized no facade call is     *)
(* left waiting, the slot is empty and no backend was handed anything, and *)
(* nothing a backend ever received came from such a call.                  *)
C5_UninstalledIsNoOp ==
  /\ \A t \in Threads :
       (ret[t].kind \in FacadeKinds /\ ret[t].observed = UNINITIALIZED) =>
         /\ ret[t].how = "returned"
         /\ ~ret[t].value
         /\ ret[t].derefs = 0
         /\ ~ret[t].spun
  /\ State = UNINITIALIZED =>
       /\ \A t \in Threads : pc[t] = "idle"
       /\ TRACER = None
       /\ \A b \in Backends : received[b] = <<>>
  /\ \A b \in Backends : \A i \in DOMAIN received[b] :
       received[b][i].observed # UNINITIALIZED

(* All calls of the run were facade calls made with nothing installed,    *)
(* among them a record_event and an is_enabled or supports_metadata.       *)
C5_Witness ==
  /\ State = UNINITIALIZED /\ ncalls = MaxCalls
  /\ \E t \in Threads : ret[t].kind = "record_event" /\ ret[t].how = "returned"
  /\ \E t \in Threads : /\ ret[t].kind \in {"is_enabled", "supports_metadata"}
                        /\ ret[t].how = "returned" /\ ~ret[t].value

(* C6: under fair scheduling a facade call that is yielding in the         *)
(* Initializing window ends: it returns having found STATE Initialized.    *)
C6_SpinningReaderTerminates ==
  \A t \in Threads :
    (pc[t] = "load") ~>
      (/\ pc[t] = "idle" /\ ret[t].how = "returned" /\ ret[t].spun
       /\ ret[t].observed = INITIALIZED /\ ret[t].derefs >= 1)

(* A call that yielded has come back with the installed tracer's answer.   *)
C6_Witness ==
  \E t \in Threads : /\ ret[t].kind = "supports_metadata" /\ ret[t].spun
                     /\ pc[t] = "idle" /\ ret[t].observed = INITIALIZED /\ ret[t].value

(* C7, as claimed: whenever a backend is handed record_event or flush, its *)
(* is_enabled() reports true at that moment.                               *)
C7_NeverInvokedWhileDisabled ==
  \A b \in Backends : \A i \in DOMAIN received[b] : received[b][i].enabled

(* C7, amended: a backend is handed record_event or flush only by a facade *)
(* call whose own is_enabled() check returned true, and it is enabled at   *)
(* that moment unless its flag changed after that check; a call whose      *)
(* check returned false hands it nothing.                                  *)
C7_InvokedOnlyAfterEnabledCheck ==
  /\ \A b \in Backends : \A i \in DOMAIN received[b] :
       /\ received[b][i].checked
       /\ ~received[b][i].stale => received[b][i].enabled
  /\ \A t \in Threads : pc[t] = "deleg" => cur[t].chk

(* One record_event was handed on, a later one found the backend disabled  *)
(* and was skipped after the one read of the slot its check makes.         *)
C7_Witness ==
  /\ \E b \in Backends : \E i \in DOMAIN received[b] :
       received[b][i].op = "record_event" /\ ~received[b][i].stale
  /\ \E t \in Threads : /\ ret[t].kind = "record_event" /\ ret[t].observed = INITIALIZED
                        /\ ret[t].derefs = 1 /\ pc[t] = "idle"

(* C8: for every thread, the events the backends were handed from it are,  *)
(* in order, the events of its record_event calls that found the tracer    *)
(* enabled, less the one call still on its way to the tracer.              *)
C8_PerThreadProgramOrder ==
  \A t \in Threads :
    LET got == EventsOf(received["plain"], t) \o EventsOf(received["spy"], t)
    IN IF pc[t] = "deleg" /\ cur[t].kind = "record_event"
         THEN sent[t] = Append(got, cur[t].event)
         ELSE sent[t] = got

(* One thread had two different events delivered.                          *)
C8_Witness ==
  \E t \in Threads :
    /\ Len(sent[t]) = 2 /\ sent[t][1] # sent[t][2]
    /\ sent[t] = EventsOf(received["plain"], t) \o EventsOf(received["spy"], t)

(* C12: a supports_metadata() call that found a tracer installed returns   *)
(* what that tracer's supports_metadata() returns, whatever the tracer's   *)
(* is_enabled() reports; one that found none installed returns false.      *)
C12_SupportsMetadataIsTheTracersAnswer ==
  \A t \in Threads :
    (ret[t].kind = "supports_metadata" /\ ret[t].how = "returned") =>
      ret[t].value = (IF ret[t].observed = INITIALIZED
                        THEN Tracer_supports_metadata(TRACER) ELSE FALSE)

RECURSIVE Stream(_)
Stream(recs) ==
  IF recs = <<>> THEN <<Mark("[")>>
  ELSE Stream(SubSeq(recs, 1, Len(recs) - 1)) \o Serialize(recs[Len(recs)].record)
         \o <<Mark(",")>>

Completed(r) == r.ok

(* C9: whenever no call holds the sink, it holds "[" followed, for each    *)
(* record_event call that has returned, in order, by that call's           *)
(* serialized record and a ","; it never holds a "]".                      *)
C9_StreamIsBracketThenCommaTerminatedRecords ==
  (built /\ lock = None) =>
    /\ output = Stream(records)
    /\ \A i \in DOMAIN output : output[i] # Mark("]")

(* C10: whenever no call holds the sink, and the "[" went through, the     *)
(* sink holds what the record_event calls that met no failure wrote, as if *)
(* the failing calls had not been made.                                    *)
C10_FailedRecordLeavesNoTrace ==
  (built /\ lock = None /\ Len(output) > 0 /\ output[1] = Mark("[")) =>
    output = Stream(SelectSeq(records, Completed))

(* The `arg`/`args` members the sink holds, in order.                      *)
IsArgs(piece) == piece.key \in {"arg", "args"}

(* The `args` members the events of `recs` call for: one, holding the      *)
(* metadata JSON, for each event that carries metadata and none for an     *)
(* event that carries none.                                                *)
RECURSIVE ExpectedArgs(_)
ExpectedArgs(recs) ==
  IF recs = <<>> THEN <<>>
  ELSE LET json == recs[1].event.metadata.json
       IN (IF json = None THEN <<>> ELSE <<TextField("args", json)>>)
            \o ExpectedArgs(Tail(recs))

(* C11: while no sink operation has failed and no call holds the sink, the *)
(* sink holds an `args` member equal to the metadata JSON for each         *)
(* recorded event that carries metadata, and no such member (not even one  *)
(* holding null) for an event that carries none.                           *)
C11_ArgsHoldsMetadataOrIsOmitted ==
  (built /\ lock = None /\ fails = 0) =>
    SelectSeq(output, IsArgs) = ExpectedArgs(records)

(* ================================ macros =============================== *)
(* C13: a tracer whose supports_metadata() is false was never handed an    *)
(* event with metadata by the macros; a record_event on its way with       *)
(* metadata comes from a macro invoked with pairs whose supports_metadata() *)
(* call returned true, with a supporting tracer installed.                 *)
C13_NoMetadataUnlessSupported ==
  /\ \A b \in Backends :
       ~Tracer_supports_metadata(b) =>
         \A i \in DOMAIN received[b] : received[b][i].event.metadata = Metadata_default
  /\ \A t \in Threads :
       (cur[t].kind = "record_event" /\ cur[t].event.metadata # Metadata_default) =>
         /\ mac[t].pairs # None
         /\ mac[t].smd
         /\ Tracer_supports_metadata(TRACER)

(* A macro invoked with pairs has had its event handed to a tracer that    *)
(* does not support metadata: the event carries none.                      *)
C13_Witness ==
  /\ TRACER # None /\ ~Tracer_supports_metadata(TRACER)
  /\ \E t \in Threads :
       /\ mac[t].at = "record" /\ mac[t].pairs = Pairs /\ ~mac[t].smd
       /\ pc[t] = "idle" /\ ret[t].kind = "record_event" /\ ret[t].derefs = 2
       /\ received[TRACER] # <<>>
       /\ received[TRACER][Len(received[TRACER])].event =
            Event(mac[t].name, MacroKind(mac[t].op), Metadata_default)

(* C14, as claimed: a scope that has ended had its begin handed to the     *)
(* tracer exactly when it had its end handed to the tracer, whichever way  *)
(* it was left and whatever the tracer's enabled flag and the registry did *)
(* meanwhile.                                                              *)
C14_ScopeBeginAndEndArePaired ==
  \A t \in Threads :
    dropped[t].name # None => (dropped[t].began = dropped[t].ended)

(* C14, amended: a scope hands the tracer a begin or an end only if its    *)
(* guard was made (is_enabled() was true at entry); whichever way it was   *)
(* left, if the tracer's enabled flag did not change between its entry and *)
(* its end, the scope handed over both its begin and its end when its      *)
(* guard was made and neither when it was not, also when the tracer was    *)
(* installed meanwhile.                                                    *)
C14_ScopePairedUnlessFlagChanged ==
  \A t \in Threads :
    dropped[t].name # None =>
      /\ (dropped[t].began \/ dropped[t].ended) => dropped[t].guard
      /\ ~dropped[t].changed =>
            /\ dropped[t].began = dropped[t].guard
            /\ dropped[t].ended = dropped[t].guard

(* A scope left by a panic unwinding through it handed over its begin and  *)
(* its end, on a thread that had already traced before the tracer was      *)
(* installed.                                                              *)
C14_Witness ==
  \E t \in Threads :
    /\ dropped[t].path = "unwind" /\ dropped[t].began /\ dropped[t].ended
    /\ ~dropped[t].changed
    /\ early[t]

(* ============================ Chromium emitter ========================= *)
(* Where a thread is while it works on the sink.                           *)
Section == {"to_writer", "comma", "flush"}

(* C15: a flush leaves the bytes in the sink and the records as they are,  *)
(* returns (also when the sink's flush fails) releasing the mutex it held, *)
(* runs while no other thread is writing a record or flushing, and a flush *)
(* of a sink that is already flushed through changes nothing.              *)
C15_FlushIsIdempotentAndAtomic ==
  [][\A t \in EmitterThreads :
       (epc[t] = "flush" /\ epc'[t] # "flush") =>
         /\ epc'[t] = "idle" /\ lock = t /\ lock' = None
         /\ output' = output /\ records' = records /\ wrote' = wrote
         /\ \A u \in EmitterThreads \ {t} : epc[u] \notin Section
         /\ flushed' \in {flushed, Len(output)}
         /\ flushed = Len(output) => flushed' = flushed
    ]_vars

(* Two flushes have returned, one of them after the sink's flush failed:   *)
(* the sink holds its "[", flushed through.                                *)
C15_Witness ==
  /\ built /\ ecalls = 2 /\ records = <<>> /\ fails = 1
  /\ \A t \in EmitterThreads : epc[t] = "idle"
  /\ output = <<Mark("[")>> /\ flushed = 1

(* C17: at most one thread works on the sink at a time, and it is the      *)
(* thread holding the mutex; what one call wrote to the sink (a record's   *)
(* pieces and its ",") lies there in one piece, not interleaved with what  *)
(* another call wrote.                                                     *)
C17_RecordWritesAreAtomic ==
  /\ Cardinality({t \in EmitterThreads : epc[t] \in Section}) <= 1
  /\ \A t \in EmitterThreads : (epc[t] \in Section) = (lock = t)
  /\ Len(wrote) = Len(output)
  /\ \A i, k \in DOMAIN wrote :
       (i < k /\ wrote[i] = wrote[k]) => \A j \in i..k : wrote[j] = wrote[i]

(* One thread waits for the mutex while the other, its record written, is  *)
(* about to write its ",".                                                 *)
C17_Witness ==
  \E t, u \in EmitterThreads :
    /\ t # u
    /\ epc[t] = "comma" /\ ~ework[t].failed /\ lock = t
    /\ epc[u] = "lock" /\ ework[u].kind = "record_event"

(* C18: the mutex is held only by a thread working on the sink, never by a *)
(* thread whose call has returned, and under fair scheduling every call    *)
(* that waits for the mutex acquires it and returns.                       *)
C18_MutexReleasedOnAllPaths ==
  /\ [](\A t \in EmitterThreads : lock = t => epc[t] \in Section)
  /\ \A t \in EmitterThreads : (epc[t] = "lock") ~> (epc[t] = "idle" /\ lock # t)

(* A record_event whose serialization failed has returned, and a later     *)
(* call has acquired the mutex, written its record and returned.           *)
C18_Witness ==
  /\ Len(records) = 2 /\ ~records[1].ok /\ records[2].ok
  /\ lock = None
  /\ \A t \in EmitterThreads : epc[t] = "idle"

IsTs(piece) == piece.key = "ts"

(* C19: the ts values in the sink, in stream order, never decrease, and    *)
(* neither do those of the records in the order their calls held the       *)
(* mutex.                                                                  *)
C19_TimestampsNonDecreasing ==
  /\ LET ts == SelectSeq(output, IsTs)
     IN \A i, j \in DOMAIN ts : i < j => ts[i].number <= ts[j].number
  /\ \A i, j \in DOMAIN records : i < j => records[i].record.ts <= records[j].record.ts

(* The sink holds the records of two threads, the later with a greater ts. *)
C19_Witness ==
  LET ts == SelectSeq(output, IsTs)
  IN /\ Len(ts) = 2 /\ ts[1].number < ts[2].number
     /\ Len(records) = 2 /\ records[1].thread # records[2].thread

(* ================================ macros =============================== *)
(* The durations left open by a thread's events, outermost first; an end   *)
(* that does not close the innermost open duration leaves "overlap".       *)
RECURSIVE OpenAfter(_, _)
OpenAfter(events, open) ==
  IF events = <<>> THEN open
  ELSE LET e == Head(events)
       IN IF e.kind = "SyncBegin"
            THEN OpenAfter(Tail(events), Append(open, e.name))
            ELSE IF open # <<>> /\ open[Len(open)] = e.name
                   THEN OpenAfter(Tail(events), SubSeq(open, 1, Len(open) - 1))
                   ELSE <<"overlap">>

(* The macro thread t is inside has had its event handed to the tracer.    *)
Delivered(t) == mac[t].at = "record" /\ pc[t] = "idle"

(* The durations thread t's program has open, outermost first, as far as   *)
(* their events have been handed over: a begin on its way opens nothing    *)
(* yet, an end on its way has closed nothing yet.                          *)
OpenIn(t) ==
  LET names == [i \in DOMAIN stack[t] |-> stack[t][i].name]
  IN CASE mac[t].op \in {"trace_begin", "trace_scoped"} /\ Delivered(t) ->
            Append(names, mac[t].name)
       [] mac[t].op = "trace_end" /\ Delivered(t) ->
            SubSeq(names, 1, Len(names) - 1)
       [] mac[t].op = "guard" /\ ~Delivered(t) ->
            Append(names, mac[t].name)
       [] OTHER -> names

(* C20: for a thread all of whose macros began with a tracer installed     *)
(* that has been enabled throughout, the events the tracer was handed from *)
(* it are properly nested (every end closes the innermost open duration)   *)
(* and leave open exactly the durations its program has open, in the       *)
(* program's nesting order.                                                *)
C20_EventsAreProperlyNested ==
  \A t \in Threads :
    (~early[t] /\ toggles = 0 /\ TRACER # None) =>
      OpenAfter(EventsOf(received[TRACER], t), <<>>) = OpenIn(t)

(* A scope holding a begin/end pair has been handed over in full: begin    *)
(* foo, begin bar, end bar, end foo.                                       *)
C20_Witness ==
  \E t \in Threads :
    /\ ~early[t] /\ toggles = 0 /\ TRACER # None
    /\ stack[t] = <<>> /\ mac[t].at = "none"
    /\ LET got == EventsOf(received[TRACER], t)
       IN /\ Len(got) = 4
          /\ got[1].name = "foo" /\ got[1].kind = "SyncBegin"
          /\ got[2].name = "bar" /\ got[2].kind = "SyncBegin"
          /\ got[3].name = "bar" /\ got[3].kind = "SyncEnd"
          /\ got[4].name = "foo" /\ got[4].kind = "SyncEnd"
          /\ dropped[t].name = "foo"

====
